---- MODULE Spec2Model ----
(***************************************************************************)
(* Model of the character-extractor agent (src/src/characterExtractor.ts): *)
(* the subscription callback `run`, its helper `logMessage`, and the       *)
(* external collaborators it awaits (getStep, logTask, extractCharacters,  *)
(* updateStep).  Every await of `run` is a suspension point, so one        *)
(* invocation is a sequence of atomic segments, one action per resumption. *)
(* `main` wires the callback to the subscription at startup.               *)
(***************************************************************************)
EXTENDS Integers, Sequences, FiniteSets, TLC

\* ---------------------------------------------------------------- bounds
MaxInv == 2        \* number of notifications delivered (invocations of run)
MaxChars == 2      \* longest extraction result

\* ------------------------------------------------------------- constants
StatusCreated == 201    \* the only status run treats as an accepted write

Invs == 1..MaxInv
Steps == {"s1", "s2"}
AgentExecutionStatus == {"Pending", "Completed", "Failed"}
Scripts == {"", "INT. PARK - DAY"}
Cast == <<"Jane", "Alien", "Guard", "Child">>
ExtractionErrors == {"serviceError", "malformedOutput"}
UpdateStatuses == {200, 201, 500}

\* What extractCharacters returns when it succeeds: one record for each of the
\* first MaxChars characters of the cast.
CharacterData == {SubSeq(Cast, 1, MaxChars)}

\* A step as the store holds it and as getStep returns it.
StepRecord(id, status, query, out, last) ==
    [step_id |-> id, task_id |-> "task-" \o id, did |-> "did-" \o id,
     step_status |-> status, input_query |-> query, output |-> out, is_last |-> last]

NoStep == StepRecord("none", "none", "", <<>>, FALSE)

\* Notification payloads handed to run: JSON text of an event for a stored
\* step, for an unknown step, without step_id, the JSON text "null", or text
\* that is not JSON at all.
Payloads ==
    {[kind |-> "event", step_id |-> s] : s \in Steps \cup {"unknown"}}
        \cup {[kind |-> k, step_id |-> "none"] : k \in {"noStepId", "null", "notJson"}}

VARIABLES
    mainPc,         \* position of main: start, subscribe, waiting, exited, rejected
    payments,       \* the module variable of line 124: "undefined" or "instance"
    characterExtractor, \* the module variable of line 126: "undefined" or "instance"
    isLoggedIn,     \* what Payments.getInstance answered: "unknown", "yes" or "no"
    subscribed,     \* run is registered as the callback of the subscription
    disconnects,    \* history: the number of payments.query.disconnect() calls
    exited,         \* process.exit(1) was called
    startupError,   \* history: the step of main that failed, "none" if none did
    store,          \* the Step Store: step id -> step record
    mutations,      \* history: number of updateStep writes the store applied, per step
    overlap,        \* history: two invocations held the same fetched step at once
    nextInv,        \* index of the next invocation of run
    pc,             \* position of each invocation of run
    eventData,      \* the payload each invocation was called with
    step,           \* the step each invocation fetched (line 139)
    characterData,  \* the result of extractCharacters (line 165)
    updateResult,   \* the status updateStep returned (line 171), 0 before it returns
    updates,        \* history: the updateStep calls each invocation made
    extracts,       \* history: the number of extractCharacters calls each invocation made
    localLog,       \* history: what each invocation wrote to the pino logger
    taskLog,        \* history: the logTask calls each invocation made
    failed,         \* history: the awaited calls that failed, per invocation
    doneBefore      \* history: the invocations that had acted on the same step and
                    \* finished when this one began

mainVars == <<mainPc, payments, characterExtractor, isLoggedIn, subscribed,
              disconnects, exited, startupError>>

vars == <<mainVars, store, mutations, overlap, nextInv, pc, eventData, step, characterData,
          updateResult, updates, extracts, localLog, taskLog, failed, doneBefore>>

\* ------------------------------------------------------------ log entries
Local(level, text, err) == [level |-> level, text |-> text, err |-> err]

TaskLogMessage(task, level, text, err, status) ==
    [task_id |-> task, level |-> level, text |-> text, err |-> err, task_status |-> status]

\* An awaited call that failed: where run awaited it and the error it raised.
Failure(at, e) == [at |-> at, err |-> e]

\* logMessage, first half: the level decides which pino method is called.
LocalLevel(level) ==
    IF level = "error" THEN "error"
    ELSE IF level = "warning" THEN "warn"
    ELSE IF level = "debug" THEN "debug"
    ELSE "info"

\* ------------------------------------------------------------------- Init
Init ==
    /\ \E st \in [Steps -> AgentExecutionStatus], q \in [Steps -> Scripts] :
          store = [s \in Steps |-> StepRecord(s, st[s], q[s], <<>>, FALSE)]
    /\ mainPc = "start"
    /\ payments = "undefined"
    /\ characterExtractor = "undefined"
    /\ isLoggedIn = "unknown"
    /\ subscribed = FALSE
    /\ disconnects = 0
    /\ exited = FALSE
    /\ startupError = "none"
    /\ mutations = [s \in Steps |-> 0]
    /\ overlap = [s \in Steps |-> FALSE]
    /\ nextInv = 1
    /\ pc = [i \in Invs |-> "idle"]
    /\ eventData = [i \in Invs |-> [kind |-> "none", step_id |-> "none"]]
    /\ step = [i \in Invs |-> NoStep]
    /\ characterData = [i \in Invs |-> <<>>]
    /\ updateResult = [i \in Invs |-> 0]
    /\ updates = [i \in Invs |-> <<>>]
    /\ extracts = [i \in Invs |-> 0]
    /\ localLog = [i \in Invs |-> <<>>]
    /\ taskLog = [i \in Invs |-> <<>>]
    /\ failed = [i \in Invs |-> {}]
    /\ doneBefore = [i \in Invs |-> {}]

\* ------------------------------------------------- the code of run, by parts

\* Variants of the guard that a slip would produce: one that also lets Failed
\* steps through, one that lets every step through.
IsPending_orFailed(st) == st.step_status \in {"Pending", "Failed"}

IsPending_always(st) == TRUE

\* The guard of line 145.
IsPending(st) == st.step_status = "Pending"

\* The validation of lines 158-159: `step.input_query || ""` is falsy.
NoScript(st) == st.input_query = ""

\* Variants of the update: the records in reverse order; the status left as
\* it was fetched.
UpdateBody_reversed(st, cd) ==
    [st EXCEPT !.step_status = "Completed", !.is_last = TRUE,
               !.output = [k \in 1..Len(cd) |-> cd[Len(cd) + 1 - k]]]

UpdateBody_keepStatus(st, cd) ==
    [st EXCEPT !.is_last = TRUE, !.output = cd]

\* Variant of the update: the script not sent back.
UpdateBody_dropQuery(st, cd) ==
    [st EXCEPT !.step_status = "Completed", !.is_last = TRUE, !.output = cd,
               !.input_query = ""]

\* The object literal of lines 171-176: the fetched step spread, then three
\* fields overwritten.
UpdateBody(st, cd) ==
    [st EXCEPT !.step_status = "Completed", !.is_last = TRUE, !.output = cd]

\* Variant of the test: any status of the success range.
Accepted_range(status) == status \in 200..299

\* The test of line 179 on the status updateStep returned.
Accepted(status) == status = StatusCreated

\* Variant of the nesting: the inner catch clause outside every try.
Handler_noOuter(at) ==
    CASE at \in {"extract", "update", "logOutcome"} -> "inner"
      [] at \in {"parse", "getStep", "logStart", "validate"} -> "outer"
      [] OTHER -> "none"

\* Variant of the nesting: the inner try opened before the step is fetched.
Handler_innerFromFetch(at) ==
    CASE at \in {"getStep", "extract", "update", "logOutcome"} -> "inner"
      [] at \in {"parse", "logStart", "validate", "logError"} -> "outer"

\* The try block that encloses each point of run where an exception can be
\* raised: "inner" is the try of lines 163-205, "outer" the try of lines
\* 133-208.  The await of line 199 sits in the inner catch clause, which only
\* the outer try encloses.
Handler(at) ==
    CASE at \in {"extract", "update", "logOutcome"} -> "inner"
      [] at \in {"parse", "getStep", "logStart", "validate", "logError"} -> "outer"

\* Variant of the error message: the caught error left out.
ErrorMessage_noReason(st, e) ==
    TaskLogMessage(st.task_id, "error", "Error during character extraction", "none", "Failed")

\* The three log messages run sends through logMessage.
StartMessage(st) ==
    TaskLogMessage(st.task_id, "info", "Starting character extraction...", "none", "none")

\* Variant of the outcome message: the status of the update not inspected.
OutcomeMessage_unchecked(st, status) ==
    TaskLogMessage(st.task_id, "info", "Character extraction completed.", "none", "Completed")

OutcomeMessage(st, status) ==
    IF Accepted(status)
    THEN TaskLogMessage(st.task_id, "info", "Character extraction completed.", "none", "Completed")
    ELSE TaskLogMessage(st.task_id, "error", "Error updating step", "none", "Failed")

ErrorMessage(st, e) ==
    TaskLogMessage(st.task_id, "error", "Error during character extraction", e, "Failed")

\* logMessage (lines 215-224): write the message to the local logger at its
\* level, then call logTask and await it at position `at`.
logMessage(i, ll, m, at) ==
    /\ localLog' = [localLog EXCEPT ![i] = Append(ll, Local(LocalLevel(m.level), m.text, m.err))]
    /\ taskLog' = [taskLog EXCEPT ![i] = Append(@, m)]
    /\ pc' = [pc EXCEPT ![i] = at]

\* Variant of the inner catch: extraction is tried again instead of reporting
\* the failure.
Throw_retry(i, at, e, ll) ==
    IF Handler(at) = "inner"
    THEN /\ localLog' = [localLog EXCEPT ![i] =
                            Append(ll, Local("error", "Error during character extraction", e))]
         /\ pc' = [pc EXCEPT ![i] = "extract"]
         /\ UNCHANGED taskLog
    ELSE /\ localLog' = [localLog EXCEPT ![i] = Append(ll, Local("error", "Error processing steps", e))]
         /\ pc' = [pc EXCEPT ![i] = "done"]
         /\ UNCHANGED taskLog

\* Variant of the outer catch: the error is raised again after it is logged.
Throw_rethrow(i, at, e, ll) ==
    IF Handler(at) = "inner"
    THEN logMessage(i, Append(ll, Local("error", "Error during character extraction", e)),
                    ErrorMessage(step[i], e), "logError")
    ELSE /\ localLog' = [localLog EXCEPT ![i] = Append(ll, Local("error", "Error processing steps", e))]
         /\ pc' = [pc EXCEPT ![i] = "rejected"]
         /\ UNCHANGED taskLog

\* An exception e raised at position `at` of invocation i, whose local log is
\* ll so far: control moves to the catch clause of the enclosing try.
Throw(i, at, e, ll) ==
    CASE Handler(at) = "inner" ->
            \* lines 196-204
            logMessage(i, Append(ll, Local("error", "Error during character extraction", e)),
                       ErrorMessage(step[i], e), "logError")
      [] Handler(at) = "outer" ->
            \* lines 206-208
            /\ localLog' = [localLog EXCEPT ![i] = Append(ll, Local("error", "Error processing steps", e))]
            /\ pc' = [pc EXCEPT ![i] = "done"]
            /\ UNCHANGED taskLog
      [] OTHER ->
            \* no enclosing try: the promise run returned is rejected
            /\ pc' = [pc EXCEPT ![i] = "rejected"]
            /\ localLog' = [localLog EXCEPT ![i] = ll]
            /\ UNCHANGED taskLog

\* The Step Store's side of updateStep: the step addressed by did is replaced
\* by the body sent.
StoreUpdate(st, call) ==
    [s \in Steps |-> IF st[s].did = call.did THEN call.body ELSE st[s]]

StepOfDid(did) == CHOOSE s \in Steps : store[s].did = did

\* ---------------------------------------------------------------- actions

\* The subscription delivers a notification: run(data) executes up to its
\* first await (lines 132-139).
run(data) ==
    LET i == nextInv
        received == Append(localLog[i], Local("info", "Received event", "none"))
    IN
    /\ subscribed
    /\ nextInv <= MaxInv
    /\ pc[i] = "idle"
    /\ nextInv' = nextInv + 1
    /\ eventData' = [eventData EXCEPT ![i] = data]
    /\ doneBefore' = [doneBefore EXCEPT ![i] =
                         {j \in Invs : /\ pc[j] = "done"
                                       /\ data.kind = "event"
                                       /\ step[j].step_id = data.step_id
                                       /\ taskLog[j] # <<>>}]
    /\ IF data.kind = "notJson"
         THEN Throw(i, "parse", "SyntaxError", localLog[i])
         ELSE IF data.kind = "null"
         THEN Throw(i, "parse", "TypeError", received)
         ELSE /\ localLog' = [localLog EXCEPT ![i] = received]
              /\ pc' = [pc EXCEPT ![i] = "getStep"]
              /\ UNCHANGED taskLog
    /\ UNCHANGED <<store, mutations, overlap, step, characterData, updateResult,
                   updates, extracts, failed, mainVars>>

\* Variant of the resumption after getStep: notifications handled one at a
\* time, a step being fetched only when no other invocation is in progress.
run_getStep_serial(i) ==
    /\ pc[i] = "getStep"
    /\ \A j \in Invs \ {i} : pc[j] \in {"idle", "getStep", "done", "rejected"}
    /\ \E ok \in BOOLEAN :
         IF ok /\ eventData[i].step_id \in Steps
         THEN LET st == store[eventData[i].step_id]
                  ll == Append(localLog[i], Local("info", "Processing Step", "none"))
              IN
              /\ step' = [step EXCEPT ![i] = st]
              /\ IF ~IsPending(st)
                   THEN /\ localLog' = [localLog EXCEPT ![i] =
                                           Append(ll, Local("warn", "is not pending. Skipping...", "none"))]
                        /\ pc' = [pc EXCEPT ![i] = "done"]
                        /\ UNCHANGED <<taskLog, overlap>>
                   ELSE /\ logMessage(i, ll, StartMessage(st), "logStart")
                        /\ overlap' = [overlap EXCEPT ![st.step_id] =
                                          @ \/ \E j \in Invs \ {i} :
                                                  /\ step[j].step_id = st.step_id
                                                  /\ pc[j] \notin {"idle", "done", "rejected"}]
              /\ UNCHANGED failed
         ELSE /\ failed' = [failed EXCEPT ![i] = @ \cup {Failure("getStep", "getStepError")}]
              /\ Throw(i, "getStep", "getStepError", localLog[i])
              /\ UNCHANGED <<step, overlap>>
    /\ UNCHANGED <<store, mutations, nextInv, eventData, characterData, updateResult,
                   updates, extracts, doneBefore,
                   mainVars>>

\* getStep returns or fails (lines 139-155).
run_getStep(i) ==
    /\ pc[i] = "getStep"
    /\ \E ok \in BOOLEAN :
         IF ok /\ eventData[i].step_id \in Steps
         THEN LET st == store[eventData[i].step_id]
                  ll == Append(localLog[i], Local("info", "Processing Step", "none"))
              IN
              /\ step' = [step EXCEPT ![i] = st]
              /\ IF ~IsPending(st)
                   THEN /\ localLog' = [localLog EXCEPT ![i] =
                                           Append(ll, Local("warn", "is not pending. Skipping...", "none"))]
                        /\ pc' = [pc EXCEPT ![i] = "done"]
                        /\ UNCHANGED <<taskLog, overlap>>
                   ELSE /\ logMessage(i, ll, StartMessage(st), "logStart")
                        /\ overlap' = [overlap EXCEPT ![st.step_id] =
                                          @ \/ \E j \in Invs \ {i} :
                                                  /\ step[j].step_id = st.step_id
                                                  /\ pc[j] \notin {"idle", "done", "rejected"}]
              /\ UNCHANGED failed
         ELSE /\ failed' = [failed EXCEPT ![i] = @ \cup {Failure("getStep", "getStepError")}]
              /\ Throw(i, "getStep", "getStepError", localLog[i])
              /\ UNCHANGED <<step, overlap>>
    /\ UNCHANGED <<store, mutations, nextInv, eventData, characterData, updateResult,
                   updates, extracts, doneBefore,
                   mainVars>>

\* logTask of the start message returns or fails (lines 151-165).
run_logStart(i) ==
    /\ pc[i] = "logStart"
    /\ \E ok \in BOOLEAN :
         IF ok
         THEN /\ UNCHANGED failed
              /\ IF NoScript(step[i])
                   THEN /\ Throw(i, "validate", "No script provided", localLog[i])
                        /\ UNCHANGED extracts
                   ELSE /\ extracts' = [extracts EXCEPT ![i] = @ + 1]
                        /\ pc' = [pc EXCEPT ![i] = "extract"]
                        /\ UNCHANGED <<localLog, taskLog>>
         ELSE /\ failed' = [failed EXCEPT ![i] = @ \cup {Failure("logStart", "logTaskError")}]
              /\ Throw(i, "logStart", "logTaskError", localLog[i])
              /\ UNCHANGED extracts
    /\ UNCHANGED <<store, mutations, overlap, nextInv, eventData, step, characterData,
                   updateResult, updates, doneBefore,
                   mainVars>>

\* extractCharacters returns the records or fails (lines 85-94, 165-176).
run_extractCharacters(i) ==
    /\ pc[i] = "extract"
    /\ \/ \E cd \in CharacterData :
            /\ characterData' = [characterData EXCEPT ![i] = cd]
            /\ localLog' = [localLog EXCEPT ![i] = Append(@, Local("info", "Extracted Characters", "none"))]
            /\ updates' = [updates EXCEPT ![i] =
                              Append(@, [did |-> step[i].did, body |-> UpdateBody(step[i], cd)])]
            /\ pc' = [pc EXCEPT ![i] = "update"]
            /\ UNCHANGED <<taskLog, failed>>
       \/ \E e \in ExtractionErrors :
            /\ failed' = [failed EXCEPT ![i] = @ \cup {Failure("extract", e)}]
            /\ Throw(i, "extract", e,
                     Append(localLog[i], Local("console", "Error during character extraction", e)))
            /\ UNCHANGED <<characterData, updates>>
    /\ UNCHANGED <<store, mutations, overlap, nextInv, eventData, step, updateResult, extracts, doneBefore,
                   mainVars>>

\* updateStep returns a status or fails (lines 171-195).  The store applies
\* the write when it answers with a status of the success range; when the call
\* fails the write may or may not have been applied.
run_updateStep(i) ==
    LET call == updates[i][Len(updates[i])]
        s == StepOfDid(call.did)
        Apply == /\ store' = StoreUpdate(store, call)
                 /\ mutations' = [mutations EXCEPT ![s] = @ + 1]
    IN
    /\ pc[i] = "update"
    /\ \/ \E status \in UpdateStatuses :
            /\ IF status \in 200..299 THEN Apply ELSE UNCHANGED <<store, mutations>>
            /\ updateResult' = [updateResult EXCEPT ![i] = status]
            /\ logMessage(i, localLog[i], OutcomeMessage(step[i], status), "logOutcome")
            /\ UNCHANGED failed
       \/ \E applied \in BOOLEAN :
            /\ IF applied THEN Apply ELSE UNCHANGED <<store, mutations>>
            /\ failed' = [failed EXCEPT ![i] = @ \cup {Failure("update", "updateStepError")}]
            /\ Throw(i, "update", "updateStepError", localLog[i])
            /\ UNCHANGED updateResult
    /\ UNCHANGED <<overlap, nextInv, eventData, step, characterData, updates, extracts, doneBefore,
                   mainVars>>

\* logTask of the outcome message returns or fails (lines 180-195).
run_logOutcome(i) ==
    /\ pc[i] = "logOutcome"
    /\ \E ok \in BOOLEAN :
         IF ok
         THEN /\ pc' = [pc EXCEPT ![i] = "done"]
              /\ UNCHANGED <<localLog, taskLog, failed>>
         ELSE /\ failed' = [failed EXCEPT ![i] = @ \cup {Failure("logOutcome", "logTaskError")}]
              /\ Throw(i, "logOutcome", "logTaskError", localLog[i])
    /\ UNCHANGED <<store, mutations, overlap, nextInv, eventData, step, characterData,
                   updateResult, updates, extracts, doneBefore,
                   mainVars>>

\* logTask of the error message, sent from the inner catch, returns or fails
\* (lines 199-208).
run_logError(i) ==
    /\ pc[i] = "logError"
    /\ \E ok \in BOOLEAN :
         IF ok
         THEN /\ pc' = [pc EXCEPT ![i] = "done"]
              /\ UNCHANGED <<localLog, taskLog, failed>>
         ELSE /\ failed' = [failed EXCEPT ![i] = @ \cup {Failure("logError", "logTaskError")}]
              /\ Throw(i, "logError", "logTaskError", localLog[i])
    /\ UNCHANGED <<store, mutations, overlap, nextInv, eventData, step, characterData,
                   updateResult, updates, extracts, doneBefore,
                   mainVars>>

\* ------------------------------------------------------------------ main
runVars == <<store, mutations, overlap, nextInv, pc, eventData, step, characterData,
             updateResult, updates, extracts, localLog, taskLog, failed, doneBefore>>

\* Variant of initializePayments: the isLoggedIn test left out.
initializePayments_unchecked(loggedIn) == [threw |-> FALSE, value |-> "instance"]

\* initializePayments (lines 232-243): the instance, or an exception when it
\* is not logged in.
initializePayments(loggedIn) ==
    IF loggedIn THEN [threw |-> FALSE, value |-> "instance"]
    ELSE [threw |-> TRUE, value |-> "undefined"]

\* The catch clause of main (lines 269-273), entered when `payments` holds p.
\* `payments.query.disconnect()` on an undefined `payments` raises a TypeError
\* from inside the catch clause: the promise of main is rejected and line 272
\* is not reached.
mainCatch(p, which) ==
    /\ startupError' = which
    /\ IF p = "undefined"
         THEN /\ mainPc' = "rejected"
              /\ UNCHANGED <<disconnects, exited>>
         ELSE /\ disconnects' = disconnects + 1
              /\ exited' = TRUE
              /\ mainPc' = "exited"

\* main up to its first await (lines 248-266): authenticate, construct the
\* extractor, call subscribe.
main ==
    /\ mainPc = "start"
    /\ \E loggedIn \in BOOLEAN, constructed \in BOOLEAN :
         LET r == initializePayments(loggedIn) IN
         /\ isLoggedIn' = IF loggedIn THEN "yes" ELSE "no"
         /\ payments' = r.value
         /\ IF r.threw
              THEN /\ mainCatch(r.value, "login")
                   /\ UNCHANGED characterExtractor
              ELSE IF ~constructed
              THEN /\ mainCatch(r.value, "extractor")
                   /\ UNCHANGED characterExtractor
              ELSE /\ characterExtractor' = "instance"
                   /\ mainPc' = "subscribe"
                   /\ UNCHANGED <<disconnects, exited, startupError>>
    /\ UNCHANGED <<subscribed, runVars>>

\* subscribe returns or fails (lines 266-273).  The callback is registered
\* when subscribe returns.
main_subscribe ==
    /\ mainPc = "subscribe"
    /\ \E ok \in BOOLEAN :
         IF ok
         THEN /\ subscribed' = TRUE
              /\ mainPc' = "waiting"
              /\ UNCHANGED <<disconnects, exited, startupError>>
         ELSE /\ mainCatch(payments, "subscribe")
              /\ UNCHANGED subscribed
    /\ UNCHANGED <<payments, characterExtractor, isLoggedIn, runVars>>

Next ==
    \/ main
    \/ main_subscribe
    \/ \E data \in Payloads : run(data)
    \/ \E i \in Invs : run_getStep(i)
    \/ \E i \in Invs : run_logStart(i)
    \/ \E i \in Invs : run_extractCharacters(i)
    \/ \E i \in Invs : run_updateStep(i)
    \/ \E i \in Invs : run_logOutcome(i)
    \/ \E i \in Invs : run_logError(i)

Spec == Init /\ [][Next]_vars

\* ------------------------------------------------------------- properties

Fetched(i) == step[i] # NoStep

FailedAt(i, at) == \E f \in failed[i] : f.at = at

\* The number of warning-level entries invocation i wrote, locally or to the
\* log channel.
WarnCount(i) ==
    Cardinality({k \in DOMAIN localLog[i] : localLog[i][k].level = "warn"})
        + Cardinality({k \in DOMAIN taskLog[i] : taskLog[i][k].level = "warning"})

\* Invocation i sent the log channel an entry of this level and task_status.
HasTaskLog(i, level, status) ==
    \E k \in DOMAIN taskLog[i] :
        taskLog[i][k].level = level /\ taskLog[i][k].task_status = status

\* Invocation i sent the log channel a terminal entry.
HasTerminal(i) ==
    \E k \in DOMAIN taskLog[i] : taskLog[i][k].task_status \in {"Completed", "Failed"}

\* extractCharacters was called by invocation i and returned its records.
ExtractionSucceeded(i) ==
    extracts[i] > 0 /\ pc[i] # "extract" /\ ~FailedAt(i, "extract")

\* C1 - Pending guard: an invocation calls extractCharacters or updateStep only
\* if the step its own getStep returned was Pending; an invocation whose
\* fetched step has any other status makes no updateStep call, no
\* extractCharacters call, and writes exactly one warning-level log.
C1_PendingGuard ==
    \A i \in Invs :
        /\ (extracts[i] > 0 \/ updates[i] # <<>>) => step[i].step_status = "Pending"
        /\ (Fetched(i) /\ step[i].step_status # "Pending") =>
              /\ pc[i] = "done"
              /\ updates[i] = <<>>
              /\ extracts[i] = 0
              /\ WarnCount(i) = 1

C1_Witness ==
    \E i \in Invs :
        /\ pc[i] = "done" /\ Fetched(i)
        /\ step[i].step_status \in {"Completed", "Failed"}
        /\ WarnCount(i) = 1

\* C2 - Success path: when extractCharacters returned for a step fetched as
\* Pending with a non-empty input_query, run called updateStep once, with
\* step_status Completed, is_last true and output the records extraction
\* returned, one entry per record in the same order.
C2_SuccessUpdate ==
    \A i \in Invs :
        ExtractionSucceeded(i) =>
            /\ Len(updates[i]) = 1
            /\ updates[i][1].body.step_status = "Completed"
            /\ updates[i][1].body.is_last = TRUE
            /\ Len(updates[i][1].body.output) = Len(characterData[i])
            /\ \A k \in 1..Len(characterData[i]) :
                  updates[i][1].body.output[k] = characterData[i][k]

C2_Witness ==
    \E i \in Invs :
        /\ pc[i] = "done" /\ ExtractionSucceeded(i)
        /\ step[i].step_status = "Pending" /\ step[i].input_query # ""
        /\ Len(characterData[i]) >= 2
        /\ updateResult[i] = 201

\* C3 - Empty input: an invocation that fetched a Pending step with an empty
\* input_query, and none of whose calls failed, never calls extractCharacters
\* and sends an error-level log entry carrying task_status Failed.
C3_EmptyInputFailedLog ==
    \A i \in Invs :
        (/\ pc[i] = "done" /\ failed[i] = {}
         /\ step[i].step_status = "Pending" /\ step[i].input_query = "") =>
            /\ extracts[i] = 0
            /\ HasTaskLog(i, "error", "Failed")

\* C4 - Extraction failure: when extractCharacters failed, the invocation
\* makes no updateStep call and sends an error-level log entry that contains
\* the error extraction raised.
C4_ExtractionFailure ==
    \A i \in Invs : \A f \in failed[i] :
        f.at = "extract" =>
            /\ updates[i] = <<>>
            /\ \E k \in DOMAIN taskLog[i] :
                  /\ taskLog[i][k].level = "error"
                  /\ taskLog[i][k].err = f.err

C4_Witness ==
    \E i \in Invs :
        /\ pc[i] = "done" /\ FailedAt(i, "extract")
        /\ step[i].step_status = "Pending" /\ step[i].input_query # ""

\* C5 - Error containment: whatever calls fail, no invocation of run ends with
\* its error escaping (the promise it returned is never rejected), and the
\* next notification can still be handed to run.
C5_ErrorContainment ==
    /\ \A i \in Invs : pc[i] # "rejected"
    /\ nextInv <= MaxInv => pc[nextInv] = "idle"

C5_Witness ==
    \E i \in Invs, j \in Invs :
        /\ pc[i] = "done" /\ FailedAt(i, "logError")
        /\ i \in doneBefore[j]
        /\ pc[j] = "done" /\ Fetched(j)

\* C6 - Best-effort start log: when logTask of the "processing started" entry
\* failed for a Pending step with a non-empty input_query, the invocation
\* still went on to call extractCharacters.
C6_StartLogBestEffort ==
    \A i \in Invs :
        (pc[i] = "done" /\ FailedAt(i, "logStart") /\ step[i].input_query # "") =>
            extracts[i] > 0

\* C7 (as stated) - Persistence outcome: once updateStep returned a status of
\* the success range the invocation sends an info-level entry with task_status
\* Completed; once it returned any other status, or failed, the invocation
\* sends an error-level entry with task_status Failed.
C7_SuccessRangeAccepted ==
    \A i \in Invs :
        /\ updateResult[i] \in 200..299 => HasTaskLog(i, "info", "Completed")
        /\ (updateResult[i] >= 300 \/ FailedAt(i, "update")) => HasTaskLog(i, "error", "Failed")

\* C7 (amended) - Persistence outcome: once updateStep returned status 201 the
\* invocation sends an info-level entry with task_status Completed; once it
\* returned any other status, also one of the success range, or failed, the
\* invocation sends an error-level entry with task_status Failed and no
\* Completed entry.
C7_CreatedAccepted ==
    \A i \in Invs :
        /\ updateResult[i] = 201 => HasTaskLog(i, "info", "Completed")
        /\ (updateResult[i] \notin {0, 201} \/ FailedAt(i, "update")) =>
              /\ HasTaskLog(i, "error", "Failed")
              /\ ~HasTaskLog(i, "info", "Completed")

C7_Witness ==
    \E i \in Invs, j \in Invs :
        /\ pc[i] = "done" /\ updateResult[i] = 200 /\ HasTaskLog(i, "error", "Failed")
        /\ pc[j] = "done" /\ updateResult[j] = 201 /\ HasTaskLog(j, "info", "Completed")

\* C8 - Idempotence: an invocation that begins after an earlier invocation for
\* the same step finished with its update applied by the store (the step was
\* advanced to Completed) calls neither extractCharacters nor updateStep and
\* sends nothing to the log channel.
C8_SecondCallNoOp ==
    \A j \in Invs : \A i \in doneBefore[j] :
        updateResult[i] \in 200..299 =>
            /\ extracts[j] = 0
            /\ updates[j] = <<>>
            /\ taskLog[j] = <<>>
            /\ store[step[i].step_id].step_status = "Completed"

C8_Witness ==
    \E j \in Invs : \E i \in doneBefore[j] :
        /\ updateResult[i] = 201
        /\ pc[j] = "done" /\ Fetched(j) /\ step[j].step_status = "Completed"
        /\ step[i].step_status = "Pending"

\* The invocations that called extractCharacters for step s.
Processing(s) == {i \in Invs : step[i].step_id = s /\ extracts[i] > 0}

\* C9 (as stated) - At most one effective processing per step: of the
\* invocations that reference one step, at most one calls extractCharacters,
\* and the store applies at most one update to the step.
C9_AtMostOneProcessing ==
    \A s \in Steps : Cardinality(Processing(s)) <= 1 /\ mutations[s] <= 1

\* C9 (amended) - As long as the invocations that fetched one step as Pending
\* did not overlap, the store applied at most one update to that step.
C9_AtMostOneUpdateWhenSerial ==
    \A s \in Steps : ~overlap[s] => mutations[s] <= 1

C9_Witness ==
    \E s \in Steps : \E i \in Invs, j \in Invs :
        /\ i # j /\ ~overlap[s] /\ mutations[s] = 1
        /\ step[i].step_id = s /\ pc[i] = "done" /\ updates[i] # <<>>
        /\ step[j].step_id = s /\ pc[j] = "done"

\* C10 - No re-processing after a terminal outcome: an invocation that begins
\* after an earlier invocation for the same step finished having sent a
\* terminal log entry (task_status Completed or Failed) never calls
\* extractCharacters and never sends a terminal log entry itself.
C10_NoReprocessingAfterTerminal ==
    \A j \in Invs : \A i \in doneBefore[j] :
        HasTerminal(i) => extracts[j] = 0 /\ ~HasTerminal(j)

\* C11 - No side effects without a fetched step: an invocation that ended
\* without a step (the payload was not parseable, carried no step_id, or
\* getStep failed) made no updateStep call, no extractCharacters call and no
\* logTask call; it wrote one error-level entry to the local logger.
C11_NoEffectWithoutStep ==
    \A i \in Invs :
        (pc[i] = "done" /\ ~Fetched(i)) =>
            /\ updates[i] = <<>>
            /\ extracts[i] = 0
            /\ taskLog[i] = <<>>
            /\ Cardinality({k \in DOMAIN localLog[i] : localLog[i][k].level = "error"}) = 1

C11_Witness ==
    \E i \in Invs, j \in Invs :
        /\ pc[i] = "done" /\ eventData[i].kind \in {"notJson", "null", "noStepId"}
        /\ pc[j] = "done" /\ eventData[j].step_id \in Steps /\ FailedAt(j, "getStep")

\* C13 - No retries: on every path an invocation calls extractCharacters at
\* most once and updateStep at most once.
C13_NoRetries ==
    \A i \in Invs : extracts[i] <= 1 /\ Len(updates[i]) <= 1

C13_Witness ==
    \E i \in Invs :
        /\ pc[i] = "done" /\ extracts[i] = 1 /\ Len(updates[i]) = 1
        /\ FailedAt(i, "update") /\ FailedAt(i, "logError")

\* C17 - Completion log ordering: an invocation has sent a log entry with
\* task_status Completed only if its updateStep call was made and returned
\* status 201; never when extraction failed, when the update was rejected or
\* failed, or before the update was issued.
C17_CompletedAfterAcceptedUpdate ==
    \A i \in Invs :
        (\E k \in DOMAIN taskLog[i] : taskLog[i][k].task_status = "Completed") =>
            /\ Len(updates[i]) = 1
            /\ updateResult[i] = 201
            /\ ~FailedAt(i, "extract")
            /\ ~FailedAt(i, "update")

C17_Witness ==
    \E i \in Invs, j \in Invs :
        /\ pc[i] = "done" /\ HasTaskLog(i, "info", "Completed") /\ updateResult[i] = 201
        /\ pc[j] = "done" /\ updateResult[j] = 500 /\ ~HasTaskLog(j, "info", "Completed")

\* C18 - Log/record consistency: no invocation whose updateStep returned 201
\* (the step is stored as Completed) sends a log entry with task_status
\* Failed.
C18_NoFailedAfterAcceptedUpdate ==
    \A i \in Invs :
        updateResult[i] = 201 =>
            ~\E k \in DOMAIN taskLog[i] : taskLog[i][k].task_status = "Failed"

\* C19 - Frame of the success update: every updateStep call of an invocation
\* is addressed to the did of the step it fetched, and its body carries the
\* fetched step's task_id, step_id, did and input_query; step_status, is_last
\* and output are the only fields that may differ.
C19_UpdateFrame ==
    \A i \in Invs : \A k \in DOMAIN updates[i] :
        /\ updates[i][k].did = step[i].did
        /\ DOMAIN updates[i][k].body = DOMAIN step[i]
        /\ \A f \in {"task_id", "step_id", "did", "input_query"} :
              updates[i][k].body[f] = step[i][f]

C19_Witness ==
    \E i \in Invs :
        /\ pc[i] = "done" /\ Len(updates[i]) = 1
        /\ step[i].input_query # ""
        /\ updates[i][1].body.step_status # step[i].step_status
        /\ updates[i][1].body.output # step[i].output

\* C12 - Fatal startup shutdown: whenever a step of main failed (the login
\* check of initializePayments, the construction of the extractor, or
\* subscribe), disconnect was called on the subscription channel and
\* process.exit(1) ended the process.
C12_FatalStartupShutdown ==
    startupError # "none" => disconnects = 1 /\ exited

\* C14 - Startup ordering: subscribe is called, and run is registered, only
\* with the Payments instance logged in and assigned and the extractor
\* constructed; no invocation of run has begun without both; and after a
\* failed login subscribe is never called.
C14_StartupOrdering ==
    /\ (mainPc = "subscribe" \/ subscribed) =>
          /\ isLoggedIn = "yes"
          /\ payments = "instance"
          /\ characterExtractor = "instance"
    /\ \A i \in Invs :
          pc[i] # "idle" => payments = "instance" /\ characterExtractor = "instance"
    /\ isLoggedIn = "no" => ~subscribed /\ mainPc \in {"rejected", "exited"}

C14_Witness ==
    /\ subscribed /\ isLoggedIn = "yes"
    /\ \E i \in Invs : pc[i] = "done" /\ extracts[i] = 1 /\ Len(updates[i]) = 1

\* --------------------------------------------------------------- liveness

\* Invocation i resumes from the call it awaits.
Resume(i) ==
    \/ run_getStep(i)
    \/ run_logStart(i)
    \/ run_extractCharacters(i)
    \/ run_updateStep(i)
    \/ run_logOutcome(i)
    \/ run_logError(i)

\* Every external call invocation i awaits eventually returns or fails.
CallsReturn(i) == WF_vars(Resume(i))

\* The start with two steps published as Pending, one of them without a
\* script.
InitPending ==
    /\ Init
    /\ \A s \in Steps : store[s].step_status = "Pending"
    /\ store["s1"].input_query # ""
    /\ store["s2"].input_query = ""

LiveSpec == InitPending /\ [][Next]_vars /\ \A i \in Invs : CallsReturn(i)

\* C15 - Drain: provided every awaited call eventually returns or fails, every
\* invocation of run that began eventually returns.
C15_Drain ==
    \A i \in Invs : (pc[i] # "idle") ~> (pc[i] = "done")

C15_Witness ==
    \E i \in Invs, j \in Invs :
        /\ pc[i] = "done" /\ FailedAt(i, "extract") /\ FailedAt(i, "logError")
        /\ pc[j] = "done" /\ updateResult[j] = 201

\* The start with two steps published as Pending, each with a script.
InitScripts ==
    /\ Init
    /\ \A s \in Steps : store[s].step_status = "Pending" /\ store[s].input_query # ""

\* The steps of the program when the extractCharacters call of the first
\* invocation hangs: it never returns and never fails.
NextHang ==
    \/ main
    \/ main_subscribe
    \/ \E data \in Payloads : run(data)
    \/ \E i \in Invs : run_getStep(i)
    \/ \E i \in Invs : run_logStart(i)
    \/ \E i \in Invs \ {1} : run_extractCharacters(i)
    \/ \E i \in Invs : run_updateStep(i)
    \/ \E i \in Invs : run_logOutcome(i)
    \/ \E i \in Invs : run_logError(i)

HangSpec == InitScripts /\ [][NextHang]_vars /\ \A i \in Invs \ {1} : CallsReturn(i)

\* C16 - Independence of invocations: while the extractCharacters call of the
\* first invocation hangs, every other invocation that began eventually
\* returns.
C16_Independence ==
    \A j \in Invs \ {1} : (pc[j] # "idle") ~> (pc[j] = "done")

C16_Witness ==
    \E j \in Invs \ {1} :
        /\ pc[1] = "extract"
        /\ pc[j] = "done" /\ Fetched(j) /\ step[j].step_id # step[1].step_id
        /\ updateResult[j] = 201 /\ HasTaskLog(j, "info", "Completed")

====
